---- MODULE Spec2Model ----
(***************************************************************************)
(* Kinesis.js: the animation drivers KinesisAudio and KinesisDistanceItem  *)
(* and the constructor / transform synthesis of KinesisTransformerElement. *)
(*                                                                         *)
(* Real numbers are kept exact.  Inside an instance every real quantity    *)
(* that depends on the falloff factor is held as a numerator over a fixed  *)
(* denominator named at the definition (startDistance for the distance     *)
(* item, FrequencyMax for the audio sample, 100 for the transformer        *)
(* scale).  Floating-point rounding is not modelled.                       *)
(***************************************************************************)
EXTENDS Integers, Sequences, FiniteSets

\* ----------------------------------------------------------------- bounds
\* Handles the host's requestAnimationFrame hands out before the model stops.
MaxHandle == 3
\* Elements carrying data-kinesisaudio-element inside the audio container.
NumElements == 2
\* Largest pointer-to-centre distance the pointer is moved to.
MaxDistance == 4

\* -------------------------------------------------------------- variables
VARIABLES
  \* the host's animation-frame machinery
  frameCallbacks,   \* pending requests: set of handles
  frameBatch,       \* handles still to be run in the frame being rendered
  nextHandle,       \* next handle requestAnimationFrame returns
  frameCommits,     \* transform commits per element in the current frame
  \* KinesisAudio
  audioAnimationId, \* this.animationId (Null or a handle)
  audioPlayback,    \* outcome of audioElement.play(): "idle","playing","rejected"
  audioTransforms,  \* element -> element.style.transform
  audioLastCall,    \* last public call made on the instance
  \* KinesisDistanceItem
  itemOptions,      \* this.options, this.minimumDistance
  initialTransform, \* this.initialTransform
  mouse,            \* (this.mouseX, this.mouseY) relative to the element centre
  listening,        \* window mousemove listener registered
  itemAnimationId,  \* this.animationId
  itemTransform,    \* this.element.style.transform
  tick,             \* locals of the last applyTransform()
  committedAngle,   \* angle committed by the last rotate tick (history)
  destroyed,        \* destroy() has returned (history)
  \* KinesisTransformerElement
  attrs,            \* the element's data-* attributes
  instance,         \* "none", "created", "error"
  fields,           \* the instance's fields
  styleOrigin,      \* element.style.transformOrigin
  styleTransform    \* element.style.transform

hostVars == <<frameCallbacks, frameBatch, nextHandle, frameCommits>>
audioVars == <<audioAnimationId, audioPlayback, audioTransforms, audioLastCall>>
itemVars == <<itemOptions, initialTransform, mouse, listening, itemAnimationId,
              itemTransform, tick, committedAngle, destroyed>>
transformerVars == <<attrs, instance, fields, styleOrigin, styleTransform>>
vars == <<hostVars, audioVars, itemVars, transformerVars>>

Null == 0

\* ============================================================ host frames
\* requestAnimationFrame(cb): a fresh handle joins the pending map.
RequestAnimationFrame(callbacks) == callbacks \cup {nextHandle}

\* cancelAnimationFrame(id): the handle leaves the pending map, if it is there.
CancelAnimationFrame(callbacks, id) == callbacks \ {id}

\* The host starts rendering a frame: every request pending now is run in it.
FrameStart ==
  /\ frameBatch = {}
  /\ frameCallbacks # {}
  /\ frameBatch' = frameCallbacks
  /\ frameCommits' = 0
  /\ UNCHANGED <<frameCallbacks, nextHandle, audioVars, itemVars, transformerVars>>

\* =========================================================== KinesisAudio
Elements == 1..NumElements

\* Largest byte of the analyser's frequency data (a Uint8Array entry).
FrequencyMax == 255
\* Bytes the analyser reports for a bin while the source plays.
FrequencyValues == {0, 128, FrequencyMax}

\* A managed element's transform: the origin (initial) transform, or the origin
\* followed by the delta computed for normalizedValue = value / FrequencyMax.
Origin == [kind |-> "origin", value |-> 0]

\* KinesisAudioElement.applyTransform(frequencyValue / 255)
AudioElementApply(frequencyValue) == [kind |-> "applied", value |-> frequencyValue]

\* KinesisAudioElement.resetTransform()
AudioElementReset == Origin

\* What getByteFrequencyData can put in dataArray[element.audioIndex]:
\* any byte while the source plays, silence otherwise.
FrequencyData(playback) ==
  IF playback = "playing" THEN [Elements -> FrequencyValues] ELSE {[e \in Elements |-> 0]}

\* KinesisAudio.animate(): the analyser and dataArray exist from init() on, so
\* the early return is never taken; every element is transformed and the next
\* frame is requested.
AudioAnimate(dataArray, callbacks) ==
  /\ audioTransforms' = [e \in Elements |-> AudioElementApply(dataArray[e])]
  /\ audioAnimationId' = nextHandle
  /\ frameCallbacks' = RequestAnimationFrame(callbacks)
  /\ nextHandle' = nextHandle + 1

\* KinesisAudio.play(); `ok` is whether audioElement.play() is fulfilled.
Play(ok) ==
  /\ frameBatch = {}
  /\ nextHandle <= MaxHandle
  /\ audioPlayback' = IF ok THEN "playing" ELSE "rejected"
  /\ \E dataArray \in FrequencyData(audioPlayback') :
        AudioAnimate(dataArray, frameCallbacks)
  /\ audioLastCall' = [call |-> "play", ok |-> ok, ticks |-> 0]
  /\ UNCHANGED <<frameBatch, frameCommits, itemVars, transformerVars>>

\* KinesisAudio.resetTransforms()
ResetTransforms == [e \in Elements |-> AudioElementReset]

\* KinesisAudio.stop()
Stop ==
  /\ frameBatch = {}
  /\ audioPlayback' = "idle"
  /\ IF audioAnimationId # Null
       THEN /\ frameCallbacks' = CancelAnimationFrame(frameCallbacks, audioAnimationId)
            /\ audioAnimationId' = Null
       ELSE UNCHANGED <<frameCallbacks, audioAnimationId>>
  /\ audioTransforms' = ResetTransforms
  /\ audioLastCall' = [call |-> "stop", ok |-> TRUE, ticks |-> 0]
  /\ UNCHANGED <<frameBatch, nextHandle, frameCommits, itemVars, transformerVars>>

\* The host runs one of the frame's callbacks, () => this.animate(); the
\* request leaves the pending map before its callback is invoked.
AudioFrame(h) ==
  /\ h \in frameBatch
  /\ h \in frameCallbacks
  /\ nextHandle <= MaxHandle
  /\ frameBatch' = frameBatch \ {h}
  /\ \E dataArray \in FrequencyData(audioPlayback) :
        AudioAnimate(dataArray, frameCallbacks \ {h})
  /\ frameCommits' = frameCommits + 1
  /\ audioLastCall' = [audioLastCall EXCEPT !.ticks = 1]
  /\ UNCHANGED <<audioPlayback, itemVars, transformerVars>>

\* The instance as the other specifications leave it: built with playAudio
\* false, never played.
AudioIdle ==
  /\ audioAnimationId = Null
  /\ audioPlayback = "idle"
  /\ audioTransforms = [e \in Elements |-> Origin]
  /\ audioLastCall = [call |-> "construct", ok |-> TRUE, ticks |-> 0]

HostIdle ==
  /\ frameCallbacks = {}
  /\ frameBatch = {}
  /\ nextHandle = 1
  /\ frameCommits = 0

\* ==================================================== KinesisDistanceItem
\* The pointer is held relative to the centre of the element's bounding
\* rectangle, in polar form: dx = r*cos(theta), dy = r*sin(theta), with r a
\* whole number of pixels and theta whole degrees in (-180, 180].
Angles == {-135, -90, 0, 10, 135, 180}
Pointers ==
  {[r |-> 0, theta |-> 0]} \cup [r : 1..MaxDistance, theta : Angles]

\* Math.abs, Math.min, Math.max
Abs(a) == IF a < 0 THEN -a ELSE a
Min(a, b) == IF a < b THEN a ELSE b
Max(a, b) == IF a > b THEN a ELSE b

\* JavaScript's a % b for b > 0: the remainder takes the sign of the dividend.
JSRem(a, b) == IF a >= 0 THEN a % b ELSE -((-a) % b)

\* sign of cos(theta) and of sin(theta), theta in (-180, 180]
SignCos(theta) == IF Abs(theta) < 90 THEN 1 ELSE IF Abs(theta) = 90 THEN 0 ELSE -1
SignSin(theta) == IF theta = 0 \/ theta = 180 THEN 0 ELSE IF theta > 0 THEN 1 ELSE -1

\* A real number coef * fn(theta) / startDistance, fn one of cos, sin; every
\* zero has the one representation ZeroPx.
ZeroPx == [coef |-> 0, fn |-> "zero", theta |-> 0]
Times(dir, coef) ==
  IF coef = 0 \/ dir.fn = "zero" THEN ZeroPx
  ELSE [coef |-> coef, fn |-> dir.fn, theta |-> dir.theta]
Sign(px) ==
  IF px.fn = "zero" \/ px.coef = 0 THEN 0
  ELSE (IF px.coef > 0 THEN 1 ELSE -1)
         * (IF px.fn = "cos" THEN SignCos(px.theta) ELSE SignSin(px.theta))

\* calculateDistance(): Math.sqrt(dx*dx + dy*dy), which is r
CalculateDistance(m) == m.r

\* directionX = dx / Math.max(distance, MIN_DISTANCE): cos(theta) when r >= 1,
\* and 0 / MIN_DISTANCE = 0 when the pointer is on the centre.
DirectionX(m) ==
  IF m.r = 0 \/ SignCos(m.theta) = 0 THEN [fn |-> "zero", theta |-> 0]
  ELSE [fn |-> "cos", theta |-> m.theta]
DirectionY(m) ==
  IF m.r = 0 \/ SignSin(m.theta) = 0 THEN [fn |-> "zero", theta |-> 0]
  ELSE [fn |-> "sin", theta |-> m.theta]

\* (Math.atan2(dy, dx) * 180) / Math.PI; Math.atan2(0, 0) is 0
Atan2Degrees(m) == IF m.r = 0 THEN 0 ELSE m.theta

\* utils clamp(value, min, max)
Clamp(value, lo, hi) == Min(Max(value, lo), hi)

\* getInteractionFactor(distance), as a numerator over startDistance; it is
\* called only with distance < startDistance, so startDistance > 0.
GetInteractionFactor(options, distance) ==
  LET normalizedDistance == Clamp(distance, 0, options.startDistance)
  IN  IF options.interactionType \in {"linear", "attraction", "repulsion"}
        THEN options.startDistance - normalizedDistance
        ELSE options.startDistance

\* The transform of the element: kind "origin" is initialTransform alone, the
\* other kinds are initialTransform followed by
\*   translate(x px, y px)                x, y as Times builds them
\*   rotate(num / startDistance deg)
\*   scale(num / (100 * startDistance))
ItemOrigin == [kind |-> "origin", x |-> ZeroPx, y |-> ZeroPx, num |-> 0]

NoTick ==
  [branch |-> "none", pointer |-> [r |-> 0, theta |-> 0],
   distance |-> 0, factor |-> 0, movement |-> 0,
   targetAngle |-> 0, currentAngle |-> 0, deltaAngle |-> 0,
   hadAngle |-> FALSE, prevAngle |-> 0]

\* currentTransform.match(/rotate\(([-\d.]+)deg\)/) on this.initialTransform
CurrentAngle(initial) == IF initial.rotate THEN initial.angle ELSE 0

\* deltaAngle = ((deltaAngle + 180) % 360) - 180
DeltaAngle(targetAngle, currentAngle) ==
  JSRem((targetAngle - currentAngle) + 180, 360) - 180

\* the movement without the cap at distance - minimumDistance
AttractionMovementUncapped(options, distance, factor) ==
  IF distance > options.minimumDistance THEN options.strength * factor ELSE 0

\* The movement of the attraction branch of case "translate", over startDistance.
AttractionMovement(options, distance, factor) ==
  IF distance > options.minimumDistance
    THEN Min(options.strength * factor,
             (distance - options.minimumDistance) * options.startDistance)
    ELSE 0

\* the direction never negated
TranslateCoefficientSame(repulsion, movement) == movement

\* translateX = -directionX * movement under repulsion, directionX * movement
\* otherwise (and the same for translateY): the factor applied to the direction.
TranslateCoefficient(repulsion, movement) == IF repulsion THEN -movement ELSE movement

\* distance <= startDistance: the boundary taken into the active branch
InRangeInclusive(options, distance) == distance <= options.startDistance

\* distance < this.options.startDistance
InRange(options, distance) == distance < options.startDistance

\* applyTransform(): the transform it commits and its locals. `angle` is the
\* history of the angle committed by the previous rotate tick.
ApplyTransform(options, initial, m, angle) ==
  LET distance == CalculateDistance(m)
      factor == GetInteractionFactor(options, distance)
      repulsion == options.interactionType = "repulsion"
      rest == [NoTick EXCEPT !.distance = distance, !.hadAngle = angle.had,
                             !.prevAngle = angle.num]
      \* dx, dy are computed inside the branch only
      base == [rest EXCEPT !.pointer = m]
  IN
  IF InRange(options, distance) THEN
    CASE options.transformType = "translate" ->
           LET movement == IF repulsion THEN options.strength * factor
                           ELSE AttractionMovement(options, distance, factor)
               coef == TranslateCoefficient(repulsion, movement)
           IN [transform |-> [kind |-> "translate",
                              x |-> Times(DirectionX(m), coef),
                              y |-> Times(DirectionY(m), coef), num |-> 0],
               locals |-> [base EXCEPT !.branch = "translate", !.factor = factor,
                                       !.movement = movement]]
      [] options.transformType = "rotate" ->
           LET raw == Atan2Degrees(m) + (IF repulsion THEN 180 ELSE 0)
               targetAngle == JSRem(JSRem(raw, 360) + 360, 360)
               currentAngle == CurrentAngle(initial)
               deltaAngle == DeltaAngle(targetAngle, currentAngle)
               rotateAngle == currentAngle * options.startDistance + deltaAngle * factor
           IN [transform |-> [kind |-> "rotate", x |-> ZeroPx, y |-> ZeroPx,
                              num |-> rotateAngle],
               locals |-> [base EXCEPT !.branch = "rotate", !.factor = factor,
                                       !.targetAngle = targetAngle,
                                       !.currentAngle = currentAngle,
                                       !.deltaAngle = deltaAngle]]
      [] options.transformType = "scale" ->
           LET scaleFactor == IF repulsion
                                THEN 100 * options.startDistance - options.strength * factor
                                ELSE 100 * options.startDistance + options.strength * factor
           IN [transform |-> [kind |-> "scale", x |-> ZeroPx, y |-> ZeroPx,
                              num |-> scaleFactor],
               locals |-> [base EXCEPT !.branch = "scale", !.factor = factor]]
      [] OTHER ->
           \* default: transformValue stays "", and the trim() leaves initialTransform
           [transform |-> ItemOrigin,
            locals |-> [base EXCEPT !.branch = "default", !.factor = factor]]
  ELSE [transform |-> ItemOrigin, locals |-> [rest EXCEPT !.branch = "rest"]]

\* The angle history after a tick.
NextAngle(angle, result) ==
  IF result.locals.branch = "rotate"
    THEN [had |-> TRUE, num |-> result.transform.num]
    ELSE angle

\* Configurations the constructor is given (options and data-ks-* attributes).
Strengths == {-3, 2, 10}
StartDistances == {3}
MinimumDistances == {0, 1}
InteractionTypes == {"linear", "attraction", "repulsion", "magnet"}
TransformTypes == {"translate", "rotate", "scale", "tilt"}
\* getComputedStyle(element).transform as far as the rotate pattern reads it
InitialTransforms ==
  {[rotate |-> FALSE, angle |-> 0], [rotate |-> TRUE, angle |-> 90],
   [rotate |-> TRUE, angle |-> 350]}
ItemOptions ==
  [active : BOOLEAN, strength : Strengths, startDistance : StartDistances,
   minimumDistance : MinimumDistances, interactionType : InteractionTypes,
   transformType : TransformTypes]

\* The configurations explored: a parameter the configured transform type
\* never reads (the initial rotation outside "rotate", strength in "rotate"
\* and the default branch, minimumDistance outside "translate") keeps one value.
ItemConfigurations ==
  {c \in [options : ItemOptions, initial : InitialTransforms] :
     /\ c.initial.rotate => c.options.transformType = "rotate"
     /\ c.options.transformType \in {"rotate", "tilt"} => c.options.strength = 2
     /\ c.options.transformType # "translate" => c.options.minimumDistance = 1}

NoAngle == [had |-> FALSE, num |-> 0]

\* animate(): applyTransform(), then request the next frame.
ItemAnimate(callbacks) ==
  LET result == ApplyTransform(itemOptions, initialTransform, mouse, committedAngle)
  IN  /\ itemTransform' = result.transform
      /\ tick' = result.locals
      /\ committedAngle' = NextAngle(committedAngle, result)
      /\ itemAnimationId' = nextHandle
      /\ frameCallbacks' = RequestAnimationFrame(callbacks)
      /\ nextHandle' = nextHandle + 1

\* The host runs the frame's callback () => this.animate().
ItemFrame(h) ==
  /\ h \in frameBatch
  /\ h \in frameCallbacks
  /\ nextHandle <= MaxHandle
  /\ frameBatch' = frameBatch \ {h}
  /\ ItemAnimate(frameCallbacks \ {h})
  /\ frameCommits' = frameCommits + 1
  /\ UNCHANGED <<itemOptions, initialTransform, mouse, listening, destroyed,
                 audioVars, transformerVars>>

\* onMouseMove(event), delivered while the listener is registered
OnMouseMove(p) ==
  /\ listening
  /\ frameBatch = {}
  /\ mouse' = p
  /\ UNCHANGED <<itemOptions, initialTransform, listening, itemAnimationId,
                 itemTransform, tick, committedAngle, destroyed,
                 hostVars, audioVars, transformerVars>>

\* destroy()
Destroy ==
  /\ frameBatch = {}
  /\ listening' = FALSE
  /\ IF itemAnimationId # Null
       THEN frameCallbacks' = CancelAnimationFrame(frameCallbacks, itemAnimationId)
       ELSE UNCHANGED frameCallbacks
  /\ destroyed' = TRUE
  /\ UNCHANGED <<itemOptions, initialTransform, mouse, itemAnimationId,
                 itemTransform, tick, committedAngle,
                 frameBatch, nextHandle, frameCommits, audioVars, transformerVars>>

\* The item as the other specifications leave it: built inactive.
ItemIdle ==
  /\ itemOptions = [active |-> FALSE, strength |-> 2, startDistance |-> 3,
                    minimumDistance |-> 1, interactionType |-> "linear",
                    transformType |-> "translate"]
  /\ initialTransform = [rotate |-> FALSE, angle |-> 0]
  /\ mouse = [r |-> 0, theta |-> 0]
  /\ listening = FALSE
  /\ itemAnimationId = Null
  /\ itemTransform = ItemOrigin
  /\ tick = NoTick
  /\ committedAngle = NoAngle
  /\ destroyed = FALSE

\* new KinesisDistanceItem(element, options): an active item has registered
\* its listener and run animate() once, with the pointer at page (0, 0).
InitItem ==
  /\ \E c \in ItemConfigurations : itemOptions = c.options /\ initialTransform = c.initial
  /\ mouse \in Pointers
  /\ listening = itemOptions.active
  /\ destroyed = FALSE
  /\ frameBatch = {}
  /\ frameCommits = 0
  /\ IF itemOptions.active
       THEN LET result == ApplyTransform(itemOptions, initialTransform, mouse, NoAngle)
            IN  /\ itemTransform = result.transform
                /\ tick = result.locals
                /\ committedAngle = NextAngle(NoAngle, result)
                /\ itemAnimationId = 1
                /\ frameCallbacks = {1}
                /\ nextHandle = 2
       ELSE /\ itemTransform = ItemOrigin
            /\ tick = NoTick
            /\ committedAngle = NoAngle
            /\ itemAnimationId = Null
            /\ frameCallbacks = {}
            /\ nextHandle = 1

\* ============================================== KinesisTransformerElement
\* Attribute values are sequences of characters; getAttribute() of an absent
\* attribute is null.
NullString == [null |-> TRUE, value |-> <<>>]
Str(chars) == [null |-> FALSE, value |-> chars]

\* JavaScript truthiness of a string-or-null: null and "" are falsy.
Truthy(s) == ~s.null /\ s.value # <<>>

\* String.prototype.toUpperCase over the characters used
UpperChar(c) ==
  CASE c = "x" -> "X" [] c = "y" -> "Y" [] c = "z" -> "Z" [] OTHER -> c
ToUpperCase(chars) == [i \in 1..Len(chars) |-> UpperChar(chars[i])]

\* String.prototype.trim
RECURSIVE TrimStart(_)
TrimStart(chars) ==
  IF chars # <<>> /\ Head(chars) = " " THEN TrimStart(Tail(chars)) ELSE chars
RECURSIVE TrimEnd(_)
TrimEnd(chars) ==
  IF chars # <<>> /\ chars[Len(chars)] = " "
    THEN TrimEnd(SubSeq(chars, 1, Len(chars) - 1)) ELSE chars
Trim(chars) == TrimEnd(TrimStart(chars))

\* Values of data-ks-constraintAxis
ConstraintAxisAttributes ==
  {NullString, Str(<<>>), Str(<<" ">>), Str(<<"X">>), Str(<<"Y">>), Str(<<"x">>),
   Str(<<"y">>), Str(<<" ", "X">>), Str(<<"Y", " ">>), Str(<<"Z">>),
   Str(<<"X", "Y">>), Str(<<"x", " ", "y">>)}
\* Values of data-ks-transform ("" stands for an absent attribute)
TransformerTypes == {"", "translate", "rotate", "scale", "tilt", "tilt_inv", "skew"}
\* parseTransformAxes(data-ks-transformAxis): the axes named (none when absent)
TransformAxisAttributes == {{}, {"X"}, {"X", "Y"}, {"Z"}, {"X", "Y", "Z"}}
\* Values of data-ks-transformOrigin ("" stands for an absent attribute)
TransformOriginAttributes == {"", "top left"}
\* parseFloat(data-ks-strength || "10")
DefaultStrength == 10
TransformerStrengths == {DefaultStrength}
\* Inputs of applyTransform(x, y)
Inputs == {-1, 0, 1}

ElementAttributes ==
  [marker : BOOLEAN, constraintAxis : ConstraintAxisAttributes,
   type : TransformerTypes, transformAxis : TransformAxisAttributes,
   transformOrigin : TransformOriginAttributes, strength : TransformerStrengths]

\* the attribute taken as written, neither trimmed nor upper-cased
ConstraintAxisAsWritten(attribute) ==
  IF Truthy(attribute) THEN attribute ELSE NullString

\* this.constraintAxis = attribute ? attribute.trim().toUpperCase() : null
ConstraintAxisOf(attribute) ==
  IF Truthy(attribute) THEN Str(ToUpperCase(Trim(attribute.value))) ELSE NullString

\* this.constraintAxis && !["X", "Y"].includes(this.constraintAxis)
InvalidConstraintAxis(constraintAxis) ==
  Truthy(constraintAxis) /\ constraintAxis \notin {Str(<<"X">>), Str(<<"Y">>)}

\* The fields the constructor has assigned when it returns.
FieldsOf(a) ==
  LET type == IF a.type = "" THEN "translate" ELSE a.type
  IN [type |-> type,
      strength |-> a.strength,
      transformAxis |-> IF a.transformAxis = {}
                          THEN (IF type = "rotate" THEN {"Z"} ELSE {"X", "Y"})
                          ELSE a.transformAxis,
      constraintAxis |-> ConstraintAxisOf(a.constraintAxis),
      transformOrigin |-> IF a.transformOrigin = "" THEN "center center"
                          ELSE a.transformOrigin]

NoFields ==
  [type |-> "", strength |-> 0, transformAxis |-> {}, constraintAxis |-> NullString,
   transformOrigin |-> ""]

\* The constructor throws: marker attribute missing, or constraint axis invalid.
ConstructorThrows(a) ==
  \/ ~a.marker
  \/ InvalidConstraintAxis(ConstraintAxisOf(a.constraintAxis))

\* new KinesisTransformerElement(element)
Construct ==
  /\ instance = "none"
  /\ IF ConstructorThrows(attrs)
       THEN /\ instance' = "error"
            /\ UNCHANGED <<fields, styleOrigin>>
       ELSE /\ instance' = "created"
            /\ fields' = FieldsOf(attrs)
            /\ styleOrigin' = fields'.transformOrigin
  /\ UNCHANGED <<attrs, styleTransform, hostVars, audioVars, itemVars>>

\* element.style.transform: kind "origin" is initialTransform alone; the other
\* kinds are initialTransform followed by
\*   translate3d(a px, b px, c px)
\*   rotate3d(a, b, c, d deg)
\*   scale3d(a/100, b/100, c/100)
\*   tilt: rotateX(a deg) rotateY(b deg) translate3d(0,0,c px)
TransformerOrigin == [kind |-> "origin", a |-> 0, b |-> 0, c |-> 0, d |-> 0]

\* applyTransform(x, y): the transform it commits
TransformerTransform(f, x0, y0) ==
  LET x == IF f.constraintAxis = Str(<<"Y">>) THEN 0 ELSE x0
      y == IF f.constraintAxis = Str(<<"X">>) THEN 0 ELSE y0
      compensationFactor == IF Truthy(f.constraintAxis) THEN 2 ELSE 1
      hasX == "X" \in f.transformAxis
      hasY == "Y" \in f.transformAxis
      hasZ == "Z" \in f.transformAxis
      sumZ == IF hasZ THEN (x + y) * compensationFactor * f.strength ELSE 0
  IN
  CASE f.type = "translate" ->
         [kind |-> "translate", a |-> IF hasX THEN x * f.strength ELSE 0,
          b |-> IF hasY THEN y * f.strength ELSE 0, c |-> sumZ, d |-> 0]
    [] f.type = "rotate" ->
         LET rotateX == IF hasX THEN y * f.strength ELSE 0
             rotateY == IF hasY THEN x * f.strength ELSE 0
             rotateZ == sumZ
         IN [kind |-> "rotate", a |-> IF rotateX # 0 THEN 1 ELSE 0,
             b |-> IF rotateY # 0 THEN 1 ELSE 0, c |-> IF rotateZ # 0 THEN 1 ELSE 0,
             d |-> IF rotateX # 0 THEN rotateX
                   ELSE IF rotateY # 0 THEN rotateY ELSE rotateZ]
    [] f.type = "scale" ->
         [kind |-> "scale", a |-> IF hasX THEN 100 + x * f.strength ELSE 100,
          b |-> IF hasY THEN 100 + y * f.strength ELSE 100,
          c |-> 100 + sumZ, d |-> 0]
    [] f.type = "tilt" ->
         [kind |-> "tilt", a |-> IF hasX THEN y * f.strength ELSE 0,
          b |-> -(IF hasY THEN x * f.strength ELSE 0), c |-> f.strength * 2, d |-> 0]
    [] f.type = "tilt_inv" ->
         [kind |-> "tilt", a |-> -(IF hasX THEN y * f.strength ELSE 0),
          b |-> IF hasY THEN x * f.strength ELSE 0, c |-> f.strength * 2, d |-> 0]
    [] OTHER -> TransformerOrigin

\* applyTransform(x, y)
TransformerApply(x, y) ==
  /\ instance = "created"
  /\ styleTransform' = TransformerTransform(fields, x, y)
  /\ UNCHANGED <<attrs, instance, fields, styleOrigin, hostVars, audioVars, itemVars>>

\* resetTransform()
TransformerReset ==
  /\ instance = "created"
  /\ styleTransform' = TransformerOrigin
  /\ UNCHANGED <<attrs, instance, fields, styleOrigin, hostVars, audioVars, itemVars>>

\* The element before any constructor runs on it.
TransformerIdle ==
  /\ attrs = [marker |-> TRUE, constraintAxis |-> NullString, type |-> "",
              transformAxis |-> {}, transformOrigin |-> "",
              strength |-> DefaultStrength]
  /\ instance = "none"
  /\ fields = NoFields
  /\ styleOrigin = ""
  /\ styleTransform = TransformerOrigin

InitTransformer ==
  /\ attrs \in ElementAttributes
  /\ instance = "none"
  /\ fields = NoFields
  /\ styleOrigin = ""
  /\ styleTransform = TransformerOrigin

\* ========================================================= specifications
\* new KinesisAudio(container, options): with playAudio set, init() has
\* already called play().
InitAudio ==
  /\ frameBatch = {}
  /\ frameCommits = 0
  /\ \/ HostIdle /\ AudioIdle
     \/ \E ok \in BOOLEAN, dataArray \in [Elements -> FrequencyValues] :
          /\ audioPlayback = (IF ok THEN "playing" ELSE "rejected")
          /\ dataArray \in FrequencyData(audioPlayback)
          /\ audioTransforms = [e \in Elements |-> AudioElementApply(dataArray[e])]
          /\ audioAnimationId = 1
          /\ frameCallbacks = {1}
          /\ nextHandle = 2
          /\ audioLastCall = [call |-> "play", ok |-> ok, ticks |-> 0]
  /\ ItemIdle
  /\ TransformerIdle

NextAudio ==
  \/ FrameStart
  \/ \E ok \in BOOLEAN : Play(ok)
  \/ Stop
  \/ \E h \in frameBatch : AudioFrame(h)

SpecAudio == InitAudio /\ [][NextAudio]_vars

InitDistance == InitItem /\ AudioIdle /\ TransformerIdle

NextDistance ==
  \/ FrameStart
  \/ \E h \in frameBatch : ItemFrame(h)
  \/ \E p \in Pointers : OnMouseMove(p)
  \/ Destroy

SpecDistance == InitDistance /\ [][NextDistance]_vars

InitTransformerSpec == InitTransformer /\ HostIdle /\ AudioIdle /\ ItemIdle

NextTransformer ==
  \/ Construct
  \/ \E x \in Inputs, y \in Inputs : TransformerApply(x, y)
  \/ TransformerReset

SpecTransformer == InitTransformerSpec /\ [][NextTransformer]_vars

\* ================================================================= claims
\* C1: starting is idempotent: at most one frame request is pending for the
\* KinesisAudio instance, and within a frame each element's transform is
\* committed at most once.
StartIsIdempotent ==
  /\ Cardinality(frameCallbacks) <= 1
  /\ frameCommits <= 1

\* C2: teardown leaves no dangling frame request: once stop() (KinesisAudio)
\* or destroy() (KinesisDistanceItem) has returned and until a later start, no
\* frame callback of the instance is pending and no tick has run.
NoDanglingFrameRequest ==
  /\ audioLastCall.call = "stop" => frameCallbacks = {} /\ audioLastCall.ticks = 0
  /\ destroyed => frameCallbacks = {} /\ frameBatch = {}

\* C3: teardown resets elements: right after stop() every audio element, and
\* after destroy() the distance item's element, has its origin transform.
TeardownResetsElements ==
  /\ audioLastCall.call = "stop" /\ audioLastCall.ticks = 0
       => \A e \in Elements : audioTransforms[e] = Origin
  /\ destroyed => itemTransform = ItemOrigin

\* C4: the angular delta of a rotate tick lies in [-180, 180] and is congruent
\* to targetAngle - currentAngle modulo 360.
RotationDeltaIsShortest ==
  tick.branch = "rotate" =>
    /\ tick.deltaAngle >= -180 /\ tick.deltaAngle <= 180
    /\ (tick.deltaAngle - (tick.targetAngle - tick.currentAngle)) % 360 = 0

\* C5: the angle a rotate tick starts from is the angle the element's previous
\* rotate tick committed.
RotationAnglePersisted ==
  tick.branch = "rotate" /\ tick.hadAngle =>
    tick.currentAngle * itemOptions.startDistance = tick.prevAngle

\* C6: a tick with distance >= startDistance (boundary included) commits
\* exactly the origin transform, for every interaction and transform type; a
\* non-origin transform is committed only by a tick with distance < startDistance.
RestState ==
  /\ tick.branch # "none" /\ tick.distance >= itemOptions.startDistance
       => itemTransform = ItemOrigin
  /\ itemTransform # ItemOrigin
       => tick.branch # "none" /\ tick.distance < itemOptions.startDistance

RestStateWitness ==
  /\ tick.branch = "rest"
  /\ tick.distance = itemOptions.startDistance
  /\ itemOptions.transformType = "translate"
  /\ itemOptions.interactionType = "repulsion"
  /\ itemTransform = ItemOrigin
  /\ nextHandle > 2

TranslateAttractionTick ==
  tick.branch = "translate" /\ itemOptions.interactionType # "repulsion"

\* The cap of the attraction branch: the movement (over startDistance) is 0
\* up to minimumDistance and min(strength * f, d - minimumDistance) beyond it.
MovementIsCapped ==
  LET cap == (tick.distance - itemOptions.minimumDistance) * itemOptions.startDistance
  IN  /\ tick.distance <= itemOptions.minimumDistance => tick.movement = 0
      /\ tick.distance > itemOptions.minimumDistance
           => /\ tick.movement <= cap
              /\ tick.movement = Min(itemOptions.strength * tick.factor, cap)

\* C7 as stated: in a translate tick with a non-repulsion interaction type the
\* movement is never negative, is 0 whenever d <= minimumDistance, and for
\* d > minimumDistance is min(strength * f, d - minimumDistance).
MinimumDistanceCap ==
  TranslateAttractionTick => tick.movement >= 0 /\ MovementIsCapped

\* C7 as amended: the same, with the movement non-negative whenever strength
\* is non-negative.
MinimumDistanceCapAmended ==
  TranslateAttractionTick =>
    /\ itemOptions.strength >= 0 => tick.movement >= 0
    /\ MovementIsCapped

MinimumDistanceCapWitness ==
  /\ TranslateAttractionTick
  /\ itemOptions.strength > 0
  /\ tick.distance > itemOptions.minimumDistance
  /\ tick.movement > 0
  /\ tick.movement < itemOptions.strength * tick.factor
  /\ nextHandle > 2

\* C8: when play() is called and the audio source fails to start, no frame
\* request is scheduled and every element stays at its origin transform.
FailedPlayKeepsLoopStopped ==
  audioLastCall.call = "play" /\ ~audioLastCall.ok =>
    /\ frameCallbacks = {}
    /\ \A e \in Elements : audioTransforms[e] = Origin

ConstructionFailedCleanly ==
  instance = "error" =>
    fields = NoFields /\ styleOrigin = "" /\ styleTransform = TransformerOrigin

\* C9 as stated: on an element carrying the marker attribute, construction
\* succeeds only when data-ks-constraintAxis is absent or exactly "X" or "Y";
\* otherwise it fails and leaves transform-origin and transform unmodified.
ConstraintAxisExact ==
  /\ attrs.marker /\ instance # "none" =>
       (instance = "created"
          <=> attrs.constraintAxis \in {NullString, Str(<<"X">>), Str(<<"Y">>)})
  /\ ConstructionFailedCleanly

\* C9 as amended: construction succeeds exactly when the attribute is absent,
\* empty or blank, or reads X or Y once trimmed and upper-cased; otherwise it
\* fails and leaves transform-origin and transform unmodified.
ConstraintAxisNormalised ==
  /\ attrs.marker /\ instance # "none" =>
       (instance = "created"
          <=> attrs.constraintAxis \in
                {NullString, Str(<<>>), Str(<<" ">>), Str(<<"X">>), Str(<<"Y">>),
                 Str(<<"x">>), Str(<<"y">>), Str(<<" ", "X">>), Str(<<"Y", " ">>)})
  /\ ConstructionFailedCleanly

ConstraintAxisWitness ==
  /\ instance = "error"
  /\ attrs.marker
  /\ attrs.constraintAxis = Str(<<"x", " ", "y">>)
  /\ attrs.transformOrigin = "top left"

\* The translate vector the same tick commits under interaction type `other`.
CounterpartTranslate(other) ==
  ApplyTransform([itemOptions EXCEPT !.interactionType = other],
                 initialTransform, tick.pointer, NoAngle).transform

OppositeToAttraction ==
  LET attraction == CounterpartTranslate("attraction")
  IN  /\ Sign(itemTransform.x) = -Sign(attraction.x)
      /\ Sign(itemTransform.y) = -Sign(attraction.y)

====
